---- MODULE Spec2Model ----
(***************************************************************************)
(* Model of src/src/ansibleschemas/__main__.py: the documentation dump     *)
(* (doc_dump, dump_module_doc) run by a multiprocessing pool.              *)
(*                                                                         *)
(* Conventions of the model.                                               *)
(*  - A JSON text is a sequence of entries <<key, section, field, value>>, *)
(*    one per leaf of the document, in the order the text lists them.      *)
(*    A section that is a scalar has the single field ScalarField; an      *)
(*    empty section is the single entry whose field is EmptyField.         *)
(*    The entry Malformed makes the text invalid JSON.                     *)
(*  - A parsed document (a Python dict of dicts) is a function             *)
(*    key -> section -> field -> value.                                    *)
(*  - The path data/modules/<m>.json is identified by m.                   *)
(***************************************************************************)
EXTENDS Integers, Sequences, FiniteSets, TLC

\* ------------------------------------------------------------------ bounds

MaxLen == 3
PoolSize == 2
MaxTags == 2
MaxPages == 2
MaxEntries == 3

\* ------------------------------------------------------- names and values

Modules == {"a", "b"}

ScalarField == "."
EmptyField == "{}"
Malformed == <<"#", "#", "#", "#">>

\* The pop of "return" is missing.
PoppedButReturn == <<"filename", "author", "notes", "examples">>

\* The fields dump_module_doc pops from the doc section.
Popped == <<"filename", "author", "notes", "examples", "return">>

\* Code point order of the strings the model uses as keys (sort_keys=True).
KeyOrder ==
    <<".", "a", "author", "b", "description", "doc", "examples", "filename",
      "notes", "options", "other", "return", "{}">>

Rank(s) == CHOOSE i \in 1..Len(KeyOrder) : KeyOrder[i] = s

Range(f) == {f[i] : i \in DOMAIN f}

\* ------------------------------------------------------------ json.loads

WellFormed(text) == \A i \in 1..Len(text) : text[i] # Malformed

LastValue(text, k, s, f) ==
    LET hits == {i \in 1..Len(text) : text[i][1] = k /\ text[i][2] = s /\ text[i][3] = f}
        last == CHOOSE i \in hits : \A j \in hits : j <= i
    IN text[last][4]

Loads(text) ==
    LET keys == {text[i][1] : i \in 1..Len(text)}
        secs(k) == {text[i][2] : i \in {j \in 1..Len(text) : text[j][1] = k}}
        fields(k, s) ==
            {text[i][3] : i \in {j \in 1..Len(text) : text[j][1] = k /\ text[j][2] = s}}
                \ {EmptyField}
    IN [k \in keys |-> [s \in secs(k) |-> [f \in fields(k, s) |-> LastValue(text, k, s, f)]]]

\* ------------------------------------------------------------ json.dumps

EntryLess(x, y) ==
    \/ Rank(x[1]) < Rank(y[1])
    \/ x[1] = y[1] /\ Rank(x[2]) < Rank(y[2])
    \/ x[1] = y[1] /\ x[2] = y[2] /\ Rank(x[3]) < Rank(y[3])

RECURSIVE SortEntries(_)
SortEntries(E) ==
    IF E = {} THEN <<>>
    ELSE LET least == CHOOSE x \in E : \A y \in E \ {x} : EntryLess(x, y)
         IN <<least>> \o SortEntries(E \ {least})

EntriesOf(data) ==
    UNION {UNION {IF DOMAIN data[k][s] = {}
                  THEN {<<k, s, EmptyField, "">>}
                  ELSE {<<k, s, f, data[k][s][f]>> : f \in DOMAIN data[k][s]}
                  : s \in DOMAIN data[k]} : k \in DOMAIN data}

Dumps(data) == SortEntries(EntriesOf(data))

\* ------------------------------------------------------- dump_module_doc

Pop(d, f) == [g \in DOMAIN d \ {f} |-> d[g]]

RECURSIVE PopAll(_, _)
PopAll(d, fs) == IF fs = <<>> THEN d ELSE PopAll(Pop(d, Head(fs)), Tail(fs))

Sanitize(data, module) ==
    [data EXCEPT ![module] = [@ EXCEPT !["doc"] = PopAll(@, Popped)]]

\* No except clause for the failure of the tool.
NotCaught(out) == FALSE

\* check_output raises CalledProcessError on a non-zero exit status, the one
\* exception dump_module_doc catches.
CalledProcessError(out) == out.rc # 0

\* The module's document is looked up with a default: only invalid text raises.
UncaughtDecodeOnly(out, module) ==
    IF out.rc # 0 THEN FALSE ELSE ~WellFormed(out.text)

\* json.loads raises JSONDecodeError; data[module]["doc"] raises KeyError.
Uncaught(out, module) ==
    IF CalledProcessError(out) THEN FALSE
    ELSE IF ~WellFormed(out.text) THEN TRUE
    ELSE IF module \notin DOMAIN Loads(out.text) THEN TRUE
    ELSE "doc" \notin DOMAIN Loads(out.text)[module]

\* The text written by file.write(json.dumps(data, indent=2, sort_keys=True)).
Document(out, module) == Dumps(Sanitize(Loads(out.text), module))

\* A constant is returned instead of the argument.
ReturnConstant(module) == "None"

\* dump_module_doc returns its argument on both paths.
ReturnValue(module) == module

\* ------------------------------------------------- the external tool

\* What "ansible-doc -j <module>" can answer: a non-zero exit, text that is
\* not JSON, a document keyed by another name, or the module's document.
Failed == [rc |-> 1, text |-> <<>>]
Garbage == [rc |-> 0, text |-> <<Malformed>>]
NoKey == [rc |-> 0, text |-> << <<"other", "doc", "description", "x">> >>]
Full(m) ==
    [rc |-> 0,
     text |-> << <<m, "return", ScalarField, "r">>,
                 <<m, "doc", "filename", "x">>,
                 <<m, "doc", "description", "x">>,
                 <<m, "doc", "author", "x">> >>]

ToolOutputs(m) == {Failed, Garbage, NoKey, Full(m)}

\* Documents with any subset of the doc fields, listed in either order.
DocFields ==
    {"filename", "author", "notes", "examples", "return", "description", "options"}

RECURSIVE SortFields(_, _)
SortFields(S, rev) ==
    IF S = {} THEN <<>>
    ELSE LET pick == CHOOSE f \in S : \A g \in S :
                         IF rev THEN Rank(g) <= Rank(f) ELSE Rank(f) <= Rank(g)
         IN <<pick>> \o SortFields(S \ {pick}, rev)

DocText(k, S, rev) ==
    LET fs == SortFields(S, rev)
        doc == IF S = {} THEN << <<k, "doc", EmptyField, "">> >>
               ELSE [i \in 1..Len(fs) |-> <<k, "doc", fs[i], "x">>]
    IN << <<k, "return", ScalarField, "r">> >> \o doc \o << <<k, "examples", ScalarField, "e">> >>

DocOutputs(m) ==
    {Failed, Garbage, NoKey, [rc |-> 0, text |-> << <<m, "return", ScalarField, "r">> >>]}
        \cup {[rc |-> 0, text |-> DocText(m, S, rev)] : S \in SUBSET DocFields, rev \in BOOLEAN}

\* ------------------------------------------------------------- state

VARIABLES
    catalog,     \* what ansible_modules() yields
    tool,        \* the tool's answer for each module (a deterministic tool)
    files,       \* data/modules/*.json, by module name
    pc,          \* where doc_dump is
    globbed,     \* the paths of `files` still to remove
    modules,     \* the list doc_dump dispatches
    status,      \* per task of imap: queued, running, returned, raised
    wtask,       \* per pool worker: the task it runs, 0 when idle
    wpc,         \* per pool worker: where it is in dump_module_doc
    results,     \* doc_dump's results list
    progress,    \* completed count of the progress task
    total,       \* total of the progress task
    log,         \* skip notices printed, counted by module
    run,         \* 1 in the first invocation of doc_dump, 2 in the second
    before,      \* `files` as they were when this invocation of doc_dump began
    invoked,     \* per task: how often check_output has run the tool
    opened,      \* per task: how often open() has created or truncated its file
    types,       \* the tags a schema build hands to map_type, in turn
    mapped,      \* what map_type returned for them so far
    unmapped,    \* the tag named by the NotImplementedError raised, NoError if none
    gpc,         \* where dump_galaxy_platforms is
    next_link,   \* result.get('next_link') of the last page read
    pending,     \* the number of entries of result['results'] still to visit
    platforms,   \* the platforms dict
    fetched,     \* the pages read so far
    seen,        \* the dict entries visited so far
    written      \* the dict written to _galaxy.py

\* The state of doc_dump and its pool, of the callers of map_type, and of
\* dump_galaxy_platforms.
dumpVars ==
    <<catalog, tool, files, pc, globbed, modules, status, wtask, wpc, results,
      progress, total, log, run, before, invoked, opened>>
mapVars == <<types, mapped, unmapped>>
galaxyVars == <<gpc, next_link, pending, platforms, fetched, seen, written>>

vars == <<dumpVars, mapVars, galaxyVars>>

NoError == "<none>"

\* platforms: Dict[str, List[str]] = {}
EmptyDict == [n \in {} |-> <<>>]

\* map_type is not called.
MapIdle ==
    /\ types = <<>>
    /\ mapped = <<>>
    /\ unmapped = NoError

\* The values of the JSON answer of the Galaxy API: a type and a text.
Str(s) == [t |-> "str", v |-> s]

Num(s) == [t |-> "int", v |-> s]

None == [t |-> "NoneType", v |-> ""]

\* dump_galaxy_platforms is not called (main has its call commented out).
GalaxyIdle ==
    /\ gpc = "idle"
    /\ next_link = None
    /\ pending = 0
    /\ platforms = EmptyDict
    /\ fetched = 0
    /\ seen = {}
    /\ written = EmptyDict

Absent == [exists |-> FALSE, body |-> <<>>, nl |-> FALSE]
Stale == [exists |-> TRUE, body |-> << <<"old", "doc", "description", "x">> >>, nl |-> TRUE]
Truncated == [exists |-> TRUE, body |-> <<>>, nl |-> FALSE]
Complete(out, m) == [exists |-> TRUE, body |-> Document(out, m), nl |-> TRUE]

Workers == 1..PoolSize

RECURSIVE SeqsUpTo(_, _)
SeqsUpTo(S, n) ==
    IF n = 0 THEN {<<>>}
    ELSE LET shorter == SeqsUpTo(S, n - 1)
         IN shorter \cup {Append(q, x) : q \in shorter, x \in S}

InitRest ==
    /\ files \in [Modules -> {Absent, Stale}]
    /\ pc = "glob"
    /\ globbed = {}
    /\ modules = <<>>
    /\ status = <<>>
    /\ wtask = [w \in Workers |-> 0]
    /\ wpc = [w \in Workers |-> "idle"]
    /\ results = <<>>
    /\ progress = 0
    /\ total = 0
    /\ log = [m \in Modules |-> 0]
    /\ run = 1
    /\ before = files
    /\ invoked = <<>>
    /\ opened = <<>>
    /\ MapIdle
    /\ GalaxyIdle

Init ==
    /\ catalog \in SeqsUpTo(Modules, MaxLen)
    /\ tool \in {t \in [Modules -> UNION {ToolOutputs(m) : m \in Modules}] :
                    \A m \in Modules : t[m] \in ToolOutputs(m)}
    /\ InitRest

\* ------------------------------------------------------- doc_dump: reset

\* A wrong pattern matches no artifact.
GlobbedNone == {}

\* glob.glob('data/modules/*.json')
Globbed == {m \in Modules : files[m].exists}

\* files = glob.glob('data/modules/*.json')
Glob ==
    /\ pc = "glob"
    /\ globbed' = Globbed
    /\ pc' = "remove"
    /\ UNCHANGED <<catalog, tool, files, modules, status, wtask, wpc, results,
                   progress, total, log, run, before>>
    /\ UNCHANGED <<invoked, opened, mapVars, galaxyVars>>

\* os.remove(file), one iteration of the loop
Remove ==
    /\ pc = "remove"
    /\ \E m \in globbed :
        /\ files' = [files EXCEPT ![m] = Absent]
        /\ globbed' = globbed \ {m}
    /\ UNCHANGED <<catalog, tool, pc, modules, status, wtask, wpc, results,
                   progress, total, log, run, before>>
    /\ UNCHANGED <<invoked, opened, mapVars, galaxyVars>>

\* The OSError of os.remove is swallowed and the loop goes on.
RemoveFailsIgnored ==
    /\ pc = "remove"
    /\ \E m \in globbed : globbed' = globbed \ {m}
    /\ UNCHANGED <<catalog, tool, files, pc, modules, status, wtask, wpc,
                   results, progress, total, log, run, before>>
    /\ UNCHANGED <<invoked, opened, mapVars, galaxyVars>>

\* os.remove(file) raises OSError: doc_dump ends there
RemoveFails ==
    /\ pc = "remove"
    /\ globbed # {}
    /\ pc' = "resetFailed"
    /\ UNCHANGED <<catalog, tool, files, globbed, modules, status, wtask, wpc,
                   results, progress, total, log, run, before>>
    /\ UNCHANGED <<invoked, opened, mapVars, galaxyVars>>

\* The loop is left after its first iteration or before it.
ResetCutShort == TRUE

\* The for loop over files has ended.
ResetComplete == globbed = {}

\* modules = list(ansible_modules()); add_task(total=len(modules)); the pool
\* is created and imap queues one task per element of modules.
Dispatch ==
    /\ pc = "remove"
    /\ ResetComplete
    /\ modules' = catalog
    /\ total' = Len(catalog)
    /\ results' = <<>>
    /\ status' = [i \in 1..Len(catalog) |-> "queued"]
    /\ pc' = "collect"
    /\ UNCHANGED <<catalog, tool, files, globbed, wtask, wpc, progress, log, run,
                   before>>
    /\ invoked' = [i \in 1..Len(catalog) |-> 0]
    /\ opened' = [i \in 1..Len(catalog) |-> 0]
    /\ UNCHANGED <<mapVars, galaxyVars>>

\* ------------------------------------------- pool workers: dump_module_doc

\* A task stays in the queue while a worker runs it.
NextQueuedOrTaken(i) ==
    /\ i \in 1..Len(status)
    /\ status[i] \in {"queued", "running"}

\* A worker takes the task at the head of the pool's task queue.
NextQueued(i) ==
    /\ i \in 1..Len(status)
    /\ status[i] = "queued"
    /\ \A j \in 1..(i - 1) : status[j] # "queued"

\* A worker asks for a task whether or not it has ended the one it runs.
IdleOrNot(w) == TRUE

\* The worker is between two tasks.
Idle(w) == wtask[w] = 0

Take(w) ==
    /\ pc = "collect"
    /\ Idle(w)
    /\ \E i \in 1..Len(status) :
        /\ NextQueued(i)
        /\ wtask' = [wtask EXCEPT ![w] = i]
        /\ status' = [status EXCEPT ![i] = "running"]
    /\ wpc' = [wpc EXCEPT ![w] = "call"]
    /\ UNCHANGED <<catalog, tool, files, pc, globbed, modules, results, progress,
                   total, log, run, before>>
    /\ UNCHANGED <<invoked, opened, mapVars, galaxyVars>>

\* check_output, json.loads and the pops: the tool fails (the notice is
\* printed and the module returned), an exception escapes, or the text to
\* write is ready.
Call(w) ==
    /\ pc = "collect"
    /\ wpc[w] = "call"
    /\ LET i == wtask[w]
           m == modules[i]
       IN \/ /\ CalledProcessError(tool[m])
             /\ log' = [log EXCEPT ![m] = @ + 1]
             /\ status' = [status EXCEPT ![i] = "returned"]
             /\ wtask' = [wtask EXCEPT ![w] = 0]
             /\ wpc' = [wpc EXCEPT ![w] = "idle"]
          \/ /\ Uncaught(tool[m], m)
             /\ status' = [status EXCEPT ![i] = "raised"]
             /\ wtask' = [wtask EXCEPT ![w] = 0]
             /\ wpc' = [wpc EXCEPT ![w] = "idle"]
             /\ UNCHANGED log
          \/ /\ ~CalledProcessError(tool[m])
             /\ ~Uncaught(tool[m], m)
             /\ wpc' = [wpc EXCEPT ![w] = "open"]
             /\ UNCHANGED <<status, wtask, log>>
    /\ UNCHANGED <<catalog, tool, files, pc, globbed, modules, results, progress,
                   total, run, before>>
    /\ invoked' = [invoked EXCEPT ![wtask[w]] = @ + 1]
    /\ UNCHANGED <<opened, mapVars, galaxyVars>>

\* open(f"data/modules/{module}.json", "w") creates or truncates the file.
Open(w) ==
    /\ pc = "collect"
    /\ wpc[w] = "open"
    /\ files' = [files EXCEPT ![modules[wtask[w]]] = Truncated]
    /\ wpc' = [wpc EXCEPT ![w] = "json"]
    /\ UNCHANGED <<catalog, tool, pc, globbed, modules, status, wtask, results,
                   progress, total, log, run, before>>
    /\ opened' = [opened EXCEPT ![wtask[w]] = @ + 1]
    /\ UNCHANGED <<invoked, mapVars, galaxyVars>>

\* file.write(json.dumps(...)), at this handle's offset 0
WriteJson(w) ==
    /\ pc = "collect"
    /\ wpc[w] = "json"
    /\ LET m == modules[wtask[w]]
       IN files' = [files EXCEPT ![m] =
                        [exists |-> TRUE, body |-> Document(tool[m], m), nl |-> @.nl]]
    /\ wpc' = [wpc EXCEPT ![w] = "nl"]
    /\ UNCHANGED <<catalog, tool, pc, globbed, modules, status, wtask, results,
                   progress, total, log, run, before>>
    /\ UNCHANGED <<invoked, opened, mapVars, galaxyVars>>

\* file.write("\n") after the text, the file is closed, module is returned
WriteNl(w) ==
    /\ pc = "collect"
    /\ wpc[w] = "nl"
    /\ LET i == wtask[w]
           m == modules[i]
       IN /\ files' = [files EXCEPT ![m] = [exists |-> TRUE, body |-> @.body, nl |-> TRUE]]
          /\ status' = [status EXCEPT ![i] = "returned"]
    /\ wtask' = [wtask EXCEPT ![w] = 0]
    /\ wpc' = [wpc EXCEPT ![w] = "idle"]
    /\ UNCHANGED <<catalog, tool, pc, globbed, modules, results, progress, total,
                   log, run, before>>
    /\ UNCHANGED <<invoked, opened, mapVars, galaxyVars>>

\* ----------------------------------------------- doc_dump: the imap loop

\* The results are taken as soon as their tasks are handed to a worker.
ReadyOnceTaken(i) == status[i] # "queued"

\* The result of a task that raised is never delivered.
ReadyIfReturned(i) == status[i] = "returned"

\* imap yields the results in the order of the tasks: the next one is ready
\* when its task has ended.
Ready(i) == status[i] \in {"returned", "raised"}

\* The task has ended with an exception.
Raised(i) == status[i] = "raised"

\* results.append(result); progress.advance(task_id)
Collect ==
    /\ pc = "collect"
    /\ LET i == Len(results) + 1
       IN /\ i <= Len(modules)
          /\ Ready(i)
          /\ ~Raised(i)
          /\ results' = Append(results, ReturnValue(modules[i]))
    /\ progress' = progress + 1
    /\ UNCHANGED <<catalog, tool, files, pc, globbed, modules, status, wtask, wpc,
                   total, log, run, before>>
    /\ UNCHANGED <<invoked, opened, mapVars, galaxyVars>>

\* next() of the imap iterator re-raises the exception of the task; leaving
\* the with block terminates the pool, whatever its workers are doing.
Reraise ==
    /\ pc = "collect"
    /\ LET i == Len(results) + 1
       IN /\ i <= Len(modules)
          /\ Ready(i)
          /\ Raised(i)
    /\ pc' = "raised"
    /\ wtask' = [w \in Workers |-> 0]
    /\ wpc' = [w \in Workers |-> "idle"]
    /\ UNCHANGED <<catalog, tool, files, globbed, modules, status, results,
                   progress, total, log, run, before>>
    /\ UNCHANGED <<invoked, opened, mapVars, galaxyVars>>

\* The iterator is exhausted; the with block terminates the pool.
Finish ==
    /\ pc = "collect"
    /\ Len(results) = Len(modules)
    /\ pc' = "done"
    /\ wtask' = [w \in Workers |-> 0]
    /\ wpc' = [w \in Workers |-> "idle"]
    /\ UNCHANGED <<catalog, tool, files, globbed, modules, status, results,
                   progress, total, log, run, before>>
    /\ UNCHANGED <<invoked, opened, mapVars, galaxyVars>>

\* doc_dump is invoked again, on the same catalog and tool.
Rerun ==
    /\ pc = "done"
    /\ run = 1
    /\ run' = 2
    /\ before' = files
    /\ pc' = "glob"
    /\ modules' = <<>>
    /\ status' = <<>>
    /\ results' = <<>>
    /\ progress' = 0
    /\ total' = 0
    /\ log' = [m \in Modules |-> 0]
    /\ UNCHANGED <<catalog, tool, files, globbed, wtask, wpc>>
    /\ invoked' = <<>>
    /\ opened' = <<>>
    /\ UNCHANGED <<mapVars, galaxyVars>>

Next ==
    \/ Glob
    \/ Remove
    \/ RemoveFails
    \/ Dispatch
    \/ \E w \in Workers : Take(w)
    \/ \E w \in Workers : Call(w)
    \/ \E w \in Workers : Open(w)
    \/ \E w \in Workers : WriteJson(w)
    \/ \E w \in Workers : WriteNl(w)
    \/ Collect
    \/ Reraise
    \/ Finish
    \/ Rerun

Spec == Init /\ [][Next]_vars

\* One invocation of doc_dump. While the main process or a pool worker has a
\* next step, one of them takes its step; os.remove need not fail.
MainStep == Glob \/ Remove \/ Dispatch \/ Collect \/ Reraise \/ Finish

WorkerStep(w) == Take(w) \/ Call(w) \/ Open(w) \/ WriteJson(w) \/ WriteNl(w)

NextOnce ==
    \/ Glob
    \/ Remove
    \/ RemoveFails
    \/ Dispatch
    \/ \E w \in Workers : Take(w)
    \/ \E w \in Workers : Call(w)
    \/ \E w \in Workers : Open(w)
    \/ \E w \in Workers : WriteJson(w)
    \/ \E w \in Workers : WriteNl(w)
    \/ Collect
    \/ Reraise
    \/ Finish

SpecOnce ==
    /\ Init
    /\ [][NextOnce]_vars
    /\ WF_vars(MainStep \/ \E w \in Workers : WorkerStep(w))

\* One invocation of doc_dump, with no assumption on who takes a step.
SpecPool == Init /\ [][NextOnce]_vars

\* One module, every document of DocOutputs.
InitDoc ==
    /\ catalog \in {<<m>> : m \in Modules}
    /\ \E d \in DocOutputs(catalog[1]) :
          tool = [m \in Modules |-> IF m = catalog[1] THEN d ELSE Failed]
    /\ InitRest

SpecDoc == InitDoc /\ [][Next]_vars

\* ------------------------------------------------------------ properties

ExitedNonZero(m) == tool[m].rc # 0

\* Exit status zero, but the text is not the module's document.
ParseFails(m) ==
    /\ tool[m].rc = 0
    /\ \/ \E i \in 1..Len(tool[m].text) : tool[m].text[i] = Malformed
       \/ ~\E i \in 1..Len(tool[m].text) :
               tool[m].text[i][1] = m /\ tool[m].text[i][2] = "doc"

Persisted(m) == tool[m].rc = 0 /\ ~ParseFails(m)

Listed == {catalog[i] : i \in 1..Len(catalog)}

Ended == {i \in 1..Len(status) : status[i] \in {"returned", "raised"}}

\* C1: failures of the tool (non-zero exit) never abort doc_dump: no task
\* of such a module raises, doc_dump raises only at a task whose module has
\* status zero, never when every module of the list either fails so or is
\* persisted, and a finished run has collected one result per element of
\* the input list.
ToolFailuresTolerated ==
    /\ \A i \in 1..Len(status) : status[i] = "raised" => ~ExitedNonZero(modules[i])
    /\ pc = "raised" => ~ExitedNonZero(modules[Len(results) + 1])
    /\ (\A m \in Listed : ExitedNonZero(m) \/ Persisted(m)) => pc # "raised"
    /\ pc = "done" => /\ Len(results) = Len(catalog)
                      /\ \A i \in 1..Len(catalog) : results[i] = catalog[i]

ToolFailuresToleratedWitness ==
    /\ pc = "done"
    /\ Len(results) = 3
    /\ \E i, j \in 1..3 : ExitedNonZero(catalog[i]) /\ Persisted(catalog[j])

\* C2: when doc_dump has finished, a listed module whose tool invocation
\* failed has no file (even if it had one before the run) and a listed
\* module whose invocation succeeded has its complete file; from the
\* dispatch on, a failing module never has a file, partial or not.
ArtifactsMatchOutcome ==
    /\ pc = "done" =>
         \A m \in Listed :
            /\ ExitedNonZero(m) => ~files[m].exists
            /\ ~ExitedNonZero(m) => files[m] = Complete(tool[m], m)
    /\ pc \in {"collect", "raised", "done"} =>
         \A m \in Listed : ExitedNonZero(m) => ~files[m].exists

ArtifactsMatchOutcomeWitness ==
    /\ pc = "done"
    /\ run = 1
    /\ \E m, n \in Listed :
          /\ ExitedNonZero(m) /\ before[m].exists /\ ~files[m].exists
          /\ Persisted(n) /\ files[n].exists

\* C3: whenever a task has been queued or a worker has started, the reset
\* is over: doc_dump is past its remove loop, no globbed path awaits its
\* removal and no file older than the run is left.
ResetBeforeWorkers ==
    (status # <<>> \/ \E w \in Workers : wtask[w] # 0 \/ wpc[w] # "idle") =>
        /\ pc \notin {"glob", "remove", "resetFailed"}
        /\ globbed = {}
        /\ \A m \in Modules : files[m] # Stale

ResetBeforeWorkersWitness ==
    /\ run = 1
    /\ \E w \in Workers : wpc[w] = "nl"
    /\ \E m \in Modules : before[m].exists

HasOpen(w) == wpc[w] \in {"json", "nl"}

\* C4 as claimed: no two workers run tasks against the same output path
\* at the same time, whatever the module list.
NoSharedOutputPath ==
    \A v, w \in Workers :
        (v # w /\ wtask[v] # 0 /\ wtask[w] # 0) => modules[wtask[v]] # modules[wtask[w]]

NoDuplicates(q) == \A i, j \in 1..Len(q) : q[i] = q[j] => i = j

\* C4 as amended: two workers never run the same task, and when the module
\* list has no duplicate name no two running tasks share an output path,
\* so no two workers have the same file open.
NoSharedOutputPathIfDistinct ==
    /\ \A v, w \in Workers : (v # w /\ wtask[v] # 0) => wtask[v] # wtask[w]
    /\ NoDuplicates(catalog) =>
         \A v, w \in Workers :
            (v # w /\ wtask[v] # 0 /\ wtask[w] # 0) =>
                modules[wtask[v]] # modules[wtask[w]]

NoSharedOutputPathIfDistinctWitness ==
    /\ NoDuplicates(catalog)
    /\ \E v, w \in Workers : v # w /\ HasOpen(v) /\ HasOpen(w)

\* C5 as claimed: a parse failure is handled like a failure of the tool:
\* the task of that module does not raise and doc_dump goes on.
ParseFailureSkipped ==
    /\ \A i \in 1..Len(status) : ParseFails(modules[i]) => status[i] # "raised"
    /\ pc # "raised"

\* C5 as amended: a parse failure writes no file and prints no notice for
\* that module, but its exception escapes the task: doc_dump raises at the
\* first such task of the list, with only the results of the tasks before
\* it collected, and never finishes a list that holds such a module.
ParseFailureAborts ==
    /\ \A i \in 1..Len(status) :
          ParseFails(modules[i]) =>
             /\ status[i] \in {"queued", "running", "raised"}
             /\ ~files[modules[i]].exists
             /\ log[modules[i]] = 0
    /\ pc = "raised" =>
          /\ Len(results) < Len(modules)
          /\ ParseFails(modules[Len(results) + 1])
          /\ \A i \in 1..Len(results) : ~ParseFails(modules[i])
    /\ pc = "done" => \A m \in Listed : ~ParseFails(m)

ParseFailureAbortsWitness ==
    /\ pc = "raised"
    /\ Len(results) = 1
    /\ Len(modules) = 3
    /\ status[3] = "returned"

\* What a task returns when its module is persisted, for any module.
SuccessValues == {ReturnValue(m) : m \in Modules}

\* C6 as claimed: the result of a failed invocation is marked skipped: it
\* is none of the values a persisted module is reported with.
ResultMarksSkipped ==
    \A i \in 1..Len(results) : ExitedNonZero(modules[i]) => results[i] \notin SuccessValues

\* C6 as amended: the result is the bare module name on both outcomes; the
\* outcomes show only in the notice printed for a failed module (and for
\* no other) and, once the run is done, in the file of a persisted one.
ResultIsModuleName ==
    \A i \in 1..Len(results) :
        /\ results[i] = modules[i]
        /\ ExitedNonZero(modules[i]) <=> log[modules[i]] > 0
        /\ pc = "done" => (files[modules[i]].exists <=> ~ExitedNonZero(modules[i]))

ResultIsModuleNameWitness ==
    /\ pc = "done"
    /\ \E i, j \in 1..Len(results) :
          /\ ExitedNonZero(modules[i]) /\ results[i] = modules[i]
          /\ Persisted(modules[j]) /\ results[j] = modules[j]

\* C7: the progress count changes only by one step up (or back to zero
\* when doc_dump is run again), never exceeds the number of tasks that have
\* ended, and equals the number of tasks when the run is done.
ProgressPerCompletedTask ==
    /\ [][\/ progress' = progress
          \/ progress' = progress + 1
          \/ run' # run /\ progress' = 0]_vars
    /\ [](/\ progress <= Cardinality(Ended)
          /\ pc = "done" => progress = Len(status) /\ progress = total)

ProgressPerCompletedTaskWitness ==
    /\ pc = "done"
    /\ progress = 3
    /\ \E i, j \in 1..3 : ExitedNonZero(modules[i]) /\ Persisted(modules[j])

\* C8: once the reset is over, the file of a module that is not in the list
\* does not exist, in that run and in the next.
StaleArtifactGone ==
    \A m \in Modules \ Listed :
        (pc \in {"collect", "raised", "done"} \/ run = 2) => ~files[m].exists

StaleArtifactGoneWitness ==
    /\ pc = "done"
    /\ run = 1
    /\ catalog # <<>>
    /\ \E m \in Modules \ Listed : before[m] = Stale /\ ~files[m].exists

Given(m) == Loads(tool[m].text)
Written(m) == Loads(files[m].body)

\* C10: when the run is done, the file of a module whose answer is a
\* document with a doc section exists, whichever of the five fields the
\* answer has; it holds the keys and sections of the answer, the doc
\* section without the five fields and with its other fields as given, and
\* every other section as given.
FieldsStripped ==
    pc = "done" =>
        \A m \in Listed :
            Persisted(m) =>
                /\ files[m].exists
                /\ DOMAIN Written(m) = DOMAIN Given(m)
                /\ \A k \in DOMAIN Given(m) :
                      /\ DOMAIN Written(m)[k] = DOMAIN Given(m)[k]
                      /\ \A s \in DOMAIN Given(m)[k] :
                            IF k = m /\ s = "doc"
                            THEN /\ DOMAIN Written(m)[k][s] =
                                       DOMAIN Given(m)[k][s] \
                                          {"filename", "author", "notes", "examples", "return"}
                                 /\ \A f \in DOMAIN Written(m)[k][s] :
                                       Written(m)[k][s][f] = Given(m)[k][s][f]
                            ELSE Written(m)[k][s] = Given(m)[k][s]

FieldsStrippedWitness ==
    /\ pc = "done"
    /\ \E m \in Listed :
          /\ Persisted(m)
          /\ files[m].exists
          /\ DOMAIN Given(m)[m]["doc"] = {"filename", "return", "options"}
          /\ DOMAIN Written(m)[m]["doc"] = {"options"}

\* ---------------------------------------------------------------- map_type

\* The tags map_type names, and tags it does not.
SourceTags ==
    {"str", "filename", "path", "raw", "sid", "list", "bool", "int", "dict",
     "jsonarg", "json", "float"}
OtherTags == {"binary", "string", "integer", "STR", ""}

\* The tag "sid" is missing from the first list.
MapTypeWithoutSid(ansible_type) ==
    IF ansible_type \in {"str", "filename", "path", "raw"}
    THEN [raised |-> FALSE, value |-> "string"]
    ELSE IF ansible_type = "list" THEN [raised |-> FALSE, value |-> "array"]
    ELSE IF ansible_type = "bool" THEN [raised |-> FALSE, value |-> "boolean"]
    ELSE IF ansible_type = "int" THEN [raised |-> FALSE, value |-> "integer"]
    ELSE IF ansible_type \in {"dict", "jsonarg", "json"}
    THEN [raised |-> FALSE, value |-> "object"]
    ELSE IF ansible_type = "float" THEN [raised |-> FALSE, value |-> "number"]
    ELSE [raised |-> TRUE, value |-> ansible_type]

\* The function ends with `return 'string'` instead of the raise.
MapTypeWithDefault(ansible_type) ==
    IF ansible_type = "list" THEN [raised |-> FALSE, value |-> "array"]
    ELSE IF ansible_type = "bool" THEN [raised |-> FALSE, value |-> "boolean"]
    ELSE IF ansible_type = "int" THEN [raised |-> FALSE, value |-> "integer"]
    ELSE IF ansible_type \in {"dict", "jsonarg", "json"}
    THEN [raised |-> FALSE, value |-> "object"]
    ELSE IF ansible_type = "float" THEN [raised |-> FALSE, value |-> "number"]
    ELSE [raised |-> FALSE, value |-> "string"]

\* map_type: the value returned, or the tag the NotImplementedError names.
MapType(ansible_type) ==
    IF ansible_type \in {"str", "filename", "path", "raw", "sid"}
    THEN [raised |-> FALSE, value |-> "string"]
    ELSE IF ansible_type = "list" THEN [raised |-> FALSE, value |-> "array"]
    ELSE IF ansible_type = "bool" THEN [raised |-> FALSE, value |-> "boolean"]
    ELSE IF ansible_type = "int" THEN [raised |-> FALSE, value |-> "integer"]
    ELSE IF ansible_type \in {"dict", "jsonarg", "json"}
    THEN [raised |-> FALSE, value |-> "object"]
    ELSE IF ansible_type = "float" THEN [raised |-> FALSE, value |-> "number"]
    ELSE [raised |-> TRUE, value |-> ansible_type]

\* doc_dump is not called.
DumpIdle ==
    /\ catalog = <<>>
    /\ tool = [m \in Modules |-> Failed]
    /\ files = [m \in Modules |-> Absent]
    /\ pc = "idle"
    /\ globbed = {}
    /\ modules = <<>>
    /\ status = <<>>
    /\ wtask = [w \in Workers |-> 0]
    /\ wpc = [w \in Workers |-> "idle"]
    /\ results = <<>>
    /\ progress = 0
    /\ total = 0
    /\ log = [m \in Modules |-> 0]
    /\ run = 1
    /\ before = files
    /\ invoked = <<>>
    /\ opened = <<>>

InitMap ==
    /\ types \in SeqsUpTo(SourceTags \cup OtherTags, MaxTags)
    /\ mapped = <<>>
    /\ unmapped = NoError
    /\ DumpIdle
    /\ GalaxyIdle

\* A caller maps its next tag; the exception of map_type ends the caller.
MapReturns ==
    /\ unmapped = NoError
    /\ Len(mapped) < Len(types)
    /\ ~MapType(types[Len(mapped) + 1]).raised
    /\ mapped' = Append(mapped, MapType(types[Len(mapped) + 1]).value)
    /\ UNCHANGED <<types, unmapped, dumpVars, galaxyVars>>

MapRaises ==
    /\ unmapped = NoError
    /\ Len(mapped) < Len(types)
    /\ MapType(types[Len(mapped) + 1]).raised
    /\ unmapped' = MapType(types[Len(mapped) + 1]).value
    /\ UNCHANGED <<types, mapped, dumpVars, galaxyVars>>

NextMap == MapReturns \/ MapRaises

SpecMap == InitMap /\ [][NextMap]_vars

\* The mapping the specification lists.
CanonicalTag ==
    [t \in SourceTags |->
        CASE t \in {"str", "filename", "path", "raw", "sid"} -> "string"
          [] t = "list" -> "array"
          [] t = "bool" -> "boolean"
          [] t = "int" -> "integer"
          [] t \in {"dict", "jsonarg", "json"} -> "object"
          [] t = "float" -> "number"]

\* C11: map_type returns for each of the twelve listed tags the canonical
\* tag of the table, and raises for none of them.
MapTypeTotal ==
    /\ \A i \in 1..Len(mapped) :
          types[i] \in SourceTags => mapped[i] = CanonicalTag[types[i]]
    /\ unmapped # NoError => types[Len(mapped) + 1] \notin SourceTags

MapTypeTotalWitness ==
    /\ types = <<"sid", "jsonarg">>
    /\ mapped = <<"string", "object">>
    /\ unmapped = NoError

\* C12: map_type returns nothing for a tag that is not listed: it raises,
\* the error names that tag, and the caller gets no canonical tag for it.
MapTypeRejects ==
    /\ \A i \in 1..Len(mapped) : types[i] \in SourceTags
    /\ unmapped # NoError =>
          /\ Len(mapped) < Len(types)
          /\ unmapped = types[Len(mapped) + 1]
          /\ unmapped \in OtherTags

MapTypeRejectsWitness ==
    /\ types = <<"list", "binary">>
    /\ mapped = <<"array">>
    /\ unmapped = "binary"

\* C13 as claimed: a run that has ended has collected a result for every
\* task, whichever modules are bad.
EndedWithEveryResult ==
    pc \in {"done", "raised"} => Len(results) = Len(catalog)

\* C13 as amended: once its tasks are queued, doc_dump always comes to an
\* end and is never left waiting on a bad module; it ends done, with a
\* result for every task, when no listed module has a parse failure, and
\* it ends raising when one has.
RunEnds ==
    /\ (pc = "collect") ~> (pc \in {"done", "raised"})
    /\ [](pc = "done" =>
            /\ Len(results) = Len(catalog)
            /\ \A m \in Listed : ~ParseFails(m))
    /\ [](pc = "raised" => \E m \in Listed : ParseFails(m))

RunEndsWitness ==
    /\ pc = "done"
    /\ Len(results) = 3
    /\ ExitedNonZero(catalog[2])
    /\ Persisted(catalog[3])

Dispatched == pc \in {"collect", "raised", "done"}

\* C14: when os.remove fails, doc_dump has ended: no task is queued, no
\* worker runs, the tool is not invoked, no file is opened and the files
\* are as they were but for those already removed, and no step follows;
\* so tasks are dispatched only when no earlier artifact is left.
ResetFailureAborts ==
    /\ [](pc = "resetFailed" =>
            /\ status = <<>>
            /\ invoked = <<>>
            /\ opened = <<>>
            /\ \A w \in Workers : wtask[w] = 0 /\ wpc[w] = "idle"
            /\ \A m \in Modules : files[m] \in {before[m], Absent})
    /\ [](Dispatched => \A m \in Modules : files[m] # Stale)
    /\ [][pc # "resetFailed"]_vars

ResetFailureAbortsWitness ==
    /\ pc = "resetFailed"
    /\ catalog # <<>>
    /\ \E m, n \in Modules :
          /\ before[m] = Stale /\ files[m] = Absent
          /\ files[n] = Stale

RECURSIVE OpensOf(_, _)
\* How often the file of module m has been created or truncated by the
\* first n tasks.
OpensOf(m, n) ==
    IF n = 0 THEN 0
    ELSE OpensOf(m, n - 1) + (IF modules[n] = m THEN opened[n] ELSE 0)

Opens(m) == OpensOf(m, Len(opened))

Occurrences(m) == Cardinality({i \in 1..Len(catalog) : catalog[i] = m})

Written1(m) == files[m].exists /\ files[m].body # <<>> /\ files[m].nl

\* C15 as claimed: within a run each output file is created at most once,
\* whatever the module list.
CreatedOnce == \A m \in Modules : Opens(m) <= 1

\* C15 as amended: the file of a persisted module is created once for each
\* occurrence of its name in the list, and no other file is created; for a
\* list without duplicate names each file is thus created at most once, and
\* once it is written no step of the run changes it.
CreatedOncePerOccurrence ==
    /\ [](\A m \in Modules : Opens(m) <= Occurrences(m))
    /\ [](pc = "done" =>
            \A m \in Modules :
                Opens(m) = IF Persisted(m) THEN Occurrences(m) ELSE 0)
    /\ [](NoDuplicates(catalog) => \A m \in Modules : Opens(m) <= 1)
    /\ [][NoDuplicates(catalog) =>
            \A m \in Modules : (Dispatched /\ Written1(m)) => files'[m] = files[m]]_vars

CreatedOncePerOccurrenceWitness ==
    /\ pc = "done"
    /\ Len(catalog) = 2
    /\ NoDuplicates(catalog)
    /\ \A m \in Modules : Persisted(m) /\ Opens(m) = 1 /\ Written1(m)

\* C16: one invocation of dump_module_doc opens its file at most once, and
\* only for a module that is persisted: a task that has returned has opened
\* one file if its module is persisted and none if it was skipped, a task
\* that raised has opened none, and a file changes only by the step of a
\* worker whose task is of that module and persists it.
OneWriteOrNone ==
    /\ [](\A i \in 1..Len(opened) :
            /\ opened[i] <= 1
            /\ opened[i] = 1 => Persisted(modules[i])
            /\ status[i] = "returned" =>
                   opened[i] = IF Persisted(modules[i]) THEN 1 ELSE 0
            /\ status[i] = "raised" => opened[i] = 0)
    /\ [][\A m \in Modules :
            (Dispatched /\ files'[m] # files[m]) =>
                \E w \in Workers :
                    /\ wtask[w] # 0
                    /\ modules[wtask[w]] = m
                    /\ Persisted(m)
                    /\ wpc[w] \in {"open", "json", "nl"}]_vars

OneWriteOrNoneWitness ==
    /\ pc = "collect"
    /\ \E i, j \in 1..Len(status) :
          /\ status[i] = "returned" /\ Persisted(modules[i]) /\ opened[i] = 1
          /\ status[j] = "returned" /\ ExitedNonZero(modules[j]) /\ opened[j] = 0

Running == {i \in 1..Len(status) : status[i] = "running"}

Busy == {w \in Workers : wtask[w] # 0}

\* C17: never more tasks are in progress than the pool has workers; while
\* the pool runs, the tasks in progress are those of the busy workers, one
\* each, so that a worker has left a task only when the task has ended; and
\* a worker that runs a task can take its next step, whatever the other
\* tasks do.
PoolBounded ==
    /\ Cardinality(Running) <= PoolSize
    /\ pc = "collect" =>
          /\ Running = {wtask[w] : w \in Busy}
          /\ Cardinality(Running) = Cardinality(Busy)
          /\ \A w \in Busy : ENABLED WorkerStep(w)

PoolBoundedWitness ==
    /\ pc = "collect"
    /\ Cardinality(Running) = 2
    /\ \E i \in 1..Len(status) : status[i] = "queued"
    /\ \E v, w \in Workers : v # w /\ wpc[v] = "nl" /\ wpc[w] = "call"

\* C18 as claimed: when a run has ended, the tool has been invoked exactly
\* once for each occurrence of a name in the list.
InvokedOncePerOccurrence ==
    pc \in {"done", "raised"} =>
        /\ Len(invoked) = Len(catalog)
        /\ \A i \in 1..Len(invoked) : invoked[i] = 1

\* C18 as amended: the tool is invoked at most once for each occurrence,
\* never again after a failure; exactly once for a task that has ended, and
\* so for every occurrence when the run is done; not at all for a task
\* still queued.
NoRetries ==
    /\ \A i \in 1..Len(invoked) :
          /\ invoked[i] <= 1
          /\ status[i] \in {"returned", "raised"} => invoked[i] = 1
          /\ status[i] = "queued" => invoked[i] = 0
    /\ pc = "done" =>
          /\ Len(invoked) = Len(catalog)
          /\ \A i \in 1..Len(invoked) : invoked[i] = 1

NoRetriesWitness ==
    /\ pc = "done"
    /\ Len(invoked) = 3
    /\ ~NoDuplicates(catalog)
    /\ \E i \in 1..3 : ExitedNonZero(catalog[i])
    /\ \A i \in 1..3 : invoked[i] = 1

Truthy(value) ==
    ~ \/ value = None
      \/ value = Str("")
      \/ value = Num("0")

\* dict.get(key, None)
Get(items, key) == IF key \in DOMAIN items THEN items[key] ELSE None

NotADict == [isdict |-> FALSE, items |-> [k \in {} |-> None]]

Dict(items) == [isdict |-> TRUE, items |-> items]

\* The entries a page of results may hold: one that is no dict, and dicts
\* that have or lack a name and a release.
Entries ==
    { NotADict,
      Dict([id |-> Num("1"), name |-> Str("EL"), release |-> Str("7")]),
      Dict([id |-> Num("2"), name |-> Str("EL"), release |-> Str("7")]),
      Dict([id |-> Num("3"), name |-> Str("EL"), release |-> Str("any")]),
      Dict([id |-> Num("4"), name |-> Str("EL"), release |-> Str("None")]),
      Dict([id |-> Num("5"), name |-> Str("EL")]),
      Dict([id |-> Num("6"), name |-> Str("Fedora"), release |-> Str("7")]),
      Dict([id |-> Num("7"), name |-> Str(""), release |-> Str("7")]),
      Dict([id |-> Num("8"), release |-> Str("7")]),
      Dict([id |-> Num("9"), name |-> Num("1"), release |-> Str("7")]) }

FirstLink == Str("/api/v1/platforms/")

\* What a page may carry as next_link: a link, null, '' or no such key.
Links == {Str("/api/v1/platforms/?page=2"), None, Str("")}

AppendedIfNotAny(release, releases) ==
    release \notin {Str("any"), Str("None")}

\* if release not in ['any', 'None'] and release not in platforms[name]
Appended(release, releases) ==
    /\ release \notin {Str("any"), Str("None")}
    /\ release \notin Range(releases)

\* The body of the loop over result['results'], for one entry.
HandleEntry(p, entry) ==
    IF ~entry.isdict
    THEN p
    ELSE LET name == Get(entry.items, "name")
             release == Get(entry.items, "release")
             q == IF name \in DOMAIN p
                  THEN p
                  ELSE [k \in DOMAIN p \cup {name} |->
                           IF k = name THEN <<>> ELSE p[k]]
         IN  IF ~Truthy(name) \/ name.t # "str"
             THEN p
             ELSE IF Appended(release, q[name])
                  THEN [q EXCEPT ![name] = Append(@, release)]
                  ELSE q

InitGalaxy ==
    /\ gpc = "loop"
    /\ next_link = FirstLink
    /\ pending = 0
    /\ platforms = EmptyDict
    /\ fetched = 0
    /\ seen = {}
    /\ written = EmptyDict
    /\ DumpIdle
    /\ MapIdle

\* while result.get('next_link', None): result = requests.get(url).json()
\* The API has at most MaxPages pages of at most MaxEntries entries.
Fetch ==
    /\ gpc = "loop"
    /\ Truthy(next_link)
    /\ fetched < MaxPages
    /\ \E link \in Links, n \in 0..MaxEntries :
          /\ fetched + 1 = MaxPages => ~Truthy(link)
          /\ next_link' = link
          /\ pending' = n
          /\ gpc' = IF n = 0 THEN "loop" ELSE "page"
    /\ fetched' = fetched + 1
    /\ UNCHANGED <<platforms, seen, written, dumpVars, mapVars>>

\* for entry in result['results']: one turn of the loop.
Entry ==
    /\ gpc = "page"
    /\ pending > 0
    /\ \E entry \in Entries :
          /\ platforms' = HandleEntry(platforms, entry)
          /\ seen' = IF entry.isdict THEN seen \cup {entry} ELSE seen
    /\ pending' = pending - 1
    /\ gpc' = IF pending = 1 THEN "loop" ELSE "page"
    /\ UNCHANGED <<next_link, fetched, written, dumpVars, mapVars>>

\* with open(filename, "w") as file: file.write(...)
WriteFile ==
    /\ gpc = "loop"
    /\ ~Truthy(next_link)
    /\ written' = platforms
    /\ gpc' = "done"
    /\ UNCHANGED <<next_link, pending, platforms, fetched, seen, dumpVars, mapVars>>

NextGalaxy == Fetch \/ Entry \/ WriteFile

SpecGalaxy == InitGalaxy /\ [][NextGalaxy]_vars

\* C20: every key of the mapping is a non-empty string that is the name of
\* a dict entry visited; every list of releases has no value twice and
\* neither 'any' nor 'None'; a page is read only while the last one carried
\* a next_link, and after a page without one the mapping is written and no
\* page is read.
PlatformsClean ==
    /\ [](\A name \in DOMAIN platforms :
             /\ name.t = "str"
             /\ name.v # ""
             /\ \E entry \in seen : Get(entry.items, "name") = name
             /\ \A i, j \in 1..Len(platforms[name]) :
                   platforms[name][i] = platforms[name][j] => i = j
             /\ \A i \in 1..Len(platforms[name]) :
                   platforms[name][i] \notin {Str("any"), Str("None")})
    /\ [](gpc = "done" => ~Truthy(next_link) /\ written = platforms)
    /\ [][fetched' # fetched => gpc = "loop" /\ Truthy(next_link)]_vars
    /\ [][gpc = "loop" /\ ~Truthy(next_link) =>
             gpc' = "done" /\ fetched' = fetched]_vars

PlatformsCleanWitness ==
    /\ gpc = "done"
    /\ fetched = 2
    /\ \A id \in {"1", "2", "3", "4", "5", "7"} :
          \E entry \in seen : entry.items["id"] = Num(id)
    /\ DOMAIN written = {Str("EL")}
    /\ written[Str("EL")] = <<Str("7"), None>>

====
